---- MODULE Spec2Model ----
(***************************************************************************)
(* Dashboard layout engine and theme engine of nexus-theme-forge.          *)
(*                                                                         *)
(* The state is the React state of Index (currentRole) and of the          *)
(* DashboardGrid mounted under it (isEditMode, showPalette, widgets),      *)
(* the browser's localStorage restricted to the three layout keys, and     *)
(* the last value read from Date.now().  One action per event handler or  *)
(* effect of src/src/components/DashboardGrid.tsx.  The theme side is the  *)
(* state of ThemeProvider (mode, variant, the root element's classes and   *)
(* data-theme attribute, the two theme keys of localStorage) and of        *)
(* ThemeBuilder (colors, borderRadius, themeName, the style properties of  *)
(* the root element, the toast shown last, the file downloaded last).      *)
(***************************************************************************)
EXTENDS Integers, Sequences, FiniteSets, TLC

VARIABLES
    currentRole,   \* Index: useState<UserRole>('agent')
    phase,         \* "mounted" (rendered, load effect pending), "ready", "crashed"
    isEditMode,    \* DashboardGrid: useState(false)
    showPalette,   \* DashboardGrid: useState(false)
    widgets,       \* DashboardGrid: useState<Widget[]>([])
    localStorage,  \* key -> stored record
    clock,         \* the last value Date.now() returned
    lastOp,        \* history: name of the handler that ran last
    steps,         \* number of handlers and effects run so far
    mode,            \* ThemeProvider: useState<ThemeMode>('light')
    variant,         \* ThemeProvider: useState<ThemeVariant>('professional')
    renderedMode,    \* mode as the last render of ThemeProvider saw it
    renderedVariant, \* variant as the last render of ThemeProvider saw it
    pendingEffects,  \* effects of the last render that have not run yet
    rootClasses,     \* document.documentElement.classList
    dataTheme,       \* the data-theme attribute of the root element
    themeStore,      \* localStorage at the keys theme-mode and theme-variant
    themeHistory,    \* history: what the store held at startup, has the user acted
    colors,          \* ThemeBuilder: useState(colors)
    borderRadius,    \* ThemeBuilder: useState(8)
    themeName,       \* ThemeBuilder: useState('')
    styleVars,       \* custom properties set on the root element's style
    toast,           \* title of the toast shown last
    exportedFile,    \* the theme document downloaded last
    importedFile,    \* the file handed to the import input last
    hexInput,        \* a string handed to hexToHSL, as its characters
    hslOutput        \* what hexToHSL returned for it

dashVars == <<currentRole, isEditMode, showPalette, widgets, localStorage, clock>>

themeVars == <<mode, variant, renderedMode, renderedVariant, pendingEffects,
               rootClasses, dataTheme, themeStore, themeHistory>>

builderVars == <<colors, borderRadius, themeName, styleVars, toast, exportedFile,
                 importedFile>>

hexVars == <<hexInput, hslOutput>>

vars == <<currentRole, phase, isEditMode, showPalette, widgets, localStorage, clock, lastOp, steps,
          themeVars, builderVars, hexVars>>

(***************************************************************************)
(* Bounds of the model.                                                    *)
(***************************************************************************)
MaxSteps == 9      \* handlers and effects run in one explored session
MaxChanges == 1    \* length of the list a layout-change event carries

(***************************************************************************)
(* Number encodings of the two non-integer values a widget's y can hold.   *)
(***************************************************************************)
Infinity == 999    \* JavaScript Infinity: larger than every grid coordinate
JsNull == -1       \* JavaScript null, what JSON.stringify writes for Infinity

Roles == {"agent", "supervisor", "admin"}

Widget(i, x, y, w, h, component, minW, minH) ==
    [i |-> i, x |-> x, y |-> y, w |-> w, h |-> h,
     component |-> component, minW |-> minW, minH |-> minH]

DEFAULT_LAYOUTS(role) ==
    CASE role = "agent" ->
           << Widget("call-controls", 0, 0, 8, 6, "CallControls", 6, 5),
              Widget("customer-profile", 8, 0, 4, 6, "CustomerProfile", 3, 4),
              Widget("performance", 0, 6, 6, 4, "AgentPerformance", 4, 3),
              Widget("queue-stats", 6, 6, 6, 4, "QueueStats", 4, 3) >>
      [] role = "supervisor" ->
           << Widget("queue-stats", 0, 0, 4, 3, "QueueStats", 3, 2),
              Widget("campaign-stats", 4, 0, 4, 3, "CampaignStats", 3, 2),
              Widget("performance", 8, 0, 4, 3, "AgentPerformance", 3, 2),
              Widget("agent-monitor", 0, 3, 12, 5, "AgentMonitor", 8, 4) >>
      [] role = "admin" ->
           << Widget("queue-stats", 0, 0, 3, 3, "QueueStats", 3, 2),
              Widget("campaign-stats", 3, 0, 3, 3, "CampaignStats", 3, 2),
              Widget("performance", 6, 0, 3, 3, "AgentPerformance", 3, 2),
              Widget("customer-profile", 9, 0, 3, 3, "CustomerProfile", 3, 2),
              Widget("agent-monitor", 0, 3, 12, 5, "AgentMonitor", 8, 4) >>

(***************************************************************************)
(* localStorage.  A stored record is absent (getItem returns null), the    *)
(* empty string, a string JSON.parse rejects, or the JSON text of a        *)
(* widget array (kept as the array it parses to).                          *)
(***************************************************************************)
\* Mutant of LayoutKey: one key shared by every role.
LayoutKey_NoRole(role) == "dashboard-layout-agent"

LayoutKey(role) == "dashboard-layout-" \o role

LayoutKeys == {LayoutKey(r) : r \in Roles}

\* localStorage.getItem / setItem / removeItem
GetItem(store, key) == store[key]

SetItem(store, key, value) == [store EXCEPT ![key] = value]

Absent == [kind |-> "absent", val |-> <<>>]
EmptyString == [kind |-> "empty", val |-> <<>>]
Garbage == [kind |-> "garbage", val |-> <<>>]

\* JSON.stringify(widgets): every field is written as it is, except that a
\* non-finite number is written as null.
JSONStringify(ws) ==
    [kind |-> "json",
     val |-> [k \in DOMAIN ws |->
                [ws[k] EXCEPT !.y = IF @ = Infinity THEN JsNull ELSE @]]]

\* JSON.parse of a record JSONStringify wrote.
JSONParse(rec) == rec.val

\* Mutant of RemoveItem: the record is left in place.
RemoveItem_Noop(store, key) == store

RemoveItem(store, key) == [store EXCEPT ![key] = Absent]

\* if (savedLayout): null and the empty string are falsy.
Truthy(rec) == rec.kind \notin {"absent", "empty"}

\* Mutant of IgnoresLayoutChange: the guard is missing.
IgnoresLayoutChange_Never(editing) == FALSE

\* if (!isEditMode) return;
IgnoresLayoutChange(editing) == ~editing

Ids(ws) == {ws[k].i : k \in DOMAIN ws}

\* `widget-${Date.now()}`
NewWidgetId(now) == "widget-" \o ToString(now)

GeneratedIds == {NewWidgetId(t) : t \in 0..MaxSteps}

\* The widget types the palette offers that the model adds.
AddTypes == {"QueueStats", "CallControls"}

\* The geometry layout-change events report: four different numbers, the
\* width and height below every widget's minimum.
Geoms == { [x |-> 10, y |-> 3, w |-> 2, h |-> 1] }

\* The ids layout-change events and remove clicks are explored for: one
\* built-in widget every role has, the added widgets, and an id no widget has.
TrackedIds(ws) == (Ids(ws) \cap ({"queue-stats"} \cup GeneratedIds))

ChangeItems(ws) ==
    {[i |-> id, x |-> g.x, y |-> g.y, w |-> g.w, h |-> g.h] :
        id \in TrackedIds(ws) \cup {"no-such-widget"}, g \in Geoms}

RECURSIVE SeqsUpTo(_, _)
SeqsUpTo(S, n) ==
    IF n = 0 THEN {<<>>}
    ELSE LET shorter == SeqsUpTo(S, n - 1)
         IN shorter \cup {Append(s, e) : s \in {t \in shorter : Len(t) = n - 1}, e \in S}

ChangeLists(ws) == SeqsUpTo(ChangeItems(ws), MaxChanges) \ {<<>>}

\* layout.find(l => l.i === id): the first item with that id, if any.
FindIndex(layout, id) ==
    LET hits == {k \in DOMAIN layout : layout[k].i = id}
    IN IF hits = {} THEN 0 ELSE CHOOSE k \in hits : \A m \in hits : k <= m

\* Mutant of ApplyLayout: the k-th change goes to the k-th widget.
ApplyLayout_ByPosition(ws, layout) ==
    [k \in DOMAIN ws |->
        IF k \in DOMAIN layout
        THEN [ws[k] EXCEPT !.x = layout[k].x, !.y = layout[k].y,
                           !.w = layout[k].w, !.h = layout[k].h]
        ELSE ws[k]]

\* widgets.map(...) of handleLayoutChange.
ApplyLayout(ws, layout) ==
    [k \in DOMAIN ws |->
        LET n == FindIndex(layout, ws[k].i)
        IN IF n # 0
           THEN [ws[k] EXCEPT !.x = layout[n].x, !.y = layout[n].y,
                              !.w = layout[n].w, !.h = layout[n].h]
           ELSE ws[k]]

\* Mutant of FilterOut: the layout is cut at the first widget with the id.
FilterOut_DropsRest(ws, widgetId) ==
    LET hits == {k \in DOMAIN ws : ws[k].i = widgetId}
    IN IF hits = {} THEN ws
       ELSE SubSeq(ws, 1, (CHOOSE k \in hits : \A j \in hits : k <= j) - 1)

\* widgets.filter(w => w.i !== widgetId)
RECURSIVE FilterOut(_, _)
FilterOut(ws, widgetId) ==
    IF ws = <<>> THEN <<>>
    ELSE IF Head(ws).i = widgetId
         THEN FilterOut(Tail(ws), widgetId)
         ELSE <<Head(ws)>> \o FilterOut(Tail(ws), widgetId)

\* The widget addWidget builds.
NewWidget(componentType, now) ==
    Widget(NewWidgetId(now), 0, Infinity, 4, 3, componentType, 3, 2)

(***************************************************************************)
(* Initial state: Index has just rendered DashboardGrid for 'agent'; the   *)
(* store holds what an earlier session (or anything else on the origin)    *)
(* left in it: nothing, or one record that is empty, unparsable, or a      *)
(* layout saved earlier.                                                   *)
(***************************************************************************)
EarlierLayout(role) ==
    FilterOut(DEFAULT_LAYOUTS(role), "performance")

InitialStores ==
    {[k \in LayoutKeys |-> Absent]}
    \cup {[k \in LayoutKeys |-> IF k = LayoutKey(r) THEN rec ELSE Absent] :
            r \in Roles, rec \in {EmptyString, Garbage}}
    \cup {[k \in LayoutKeys |->
              IF k = LayoutKey(r) THEN JSONStringify(EarlierLayout(r)) ELSE Absent] :
            r \in Roles}

(***************************************************************************)
(* The theme side before anything of it has run.                           *)
(***************************************************************************)
ThemeKeys == {"theme-mode", "theme-variant"}

\* What localStorage holds at a theme key: nothing, or a string.
NoItem == [present |-> FALSE, val |-> ""]
Item(str) == [present |-> TRUE, val |-> str]

NoAttribute == "(none)"   \* the root element has no data-theme attribute

ColorKeys == {"primary", "secondary", "accent", "success", "warning",
              "destructive", "background", "foreground"}

\* Strings handed to hexToHSL are kept as their characters.
defaultColors ==
    [k \in ColorKeys |->
        CASE k = "primary"     -> <<"#", "2", "1", "9", "6", "f", "3">>
          [] k = "secondary"   -> <<"#", "f", "5", "f", "5", "f", "5">>
          [] k = "accent"      -> <<"#", "9", "c", "2", "7", "b", "0">>
          [] k = "success"     -> <<"#", "4", "c", "a", "f", "5", "0">>
          [] k = "warning"     -> <<"#", "f", "f", "9", "8", "0", "0">>
          [] k = "destructive" -> <<"#", "f", "4", "4", "3", "3", "6">>
          [] k = "background"  -> <<"#", "f", "f", "f", "f", "f", "f">>
          [] k = "foreground"  -> <<"#", "1", "a", "1", "a", "1", "a">>]

\* No custom property has been set on the root element's style.
NoStyle == [colors |-> [k \in {} |-> ""], radius |-> ""]

NoFile == [kind |-> "none"]

ThemeAtRest ==
    /\ mode = "light"
    /\ variant = "professional"
    /\ renderedMode = "light"
    /\ renderedVariant = "professional"
    /\ pendingEffects = <<>>
    /\ rootClasses = {}
    /\ dataTheme = NoAttribute
    /\ themeStore = [k \in ThemeKeys |-> NoItem]
    /\ themeHistory = [found |-> themeStore, acted |-> FALSE]

BuilderAtRest ==
    /\ colors = defaultColors
    /\ borderRadius = 8
    /\ themeName = ""
    /\ styleVars = NoStyle
    /\ toast = "(none)"
    /\ exportedFile = NoFile
    /\ importedFile = NoFile

HexAtRest ==
    /\ hexInput = <<>>
    /\ hslOutput = ""

Init ==
    /\ currentRole = "agent"
    /\ phase = "mounted"
    /\ isEditMode = FALSE
    /\ showPalette = FALSE
    /\ widgets = <<>>
    /\ localStorage \in InitialStores
    /\ clock = 0
    /\ lastOp = "mount"
    /\ steps = 0
    /\ ThemeAtRest /\ BuilderAtRest /\ HexAtRest

(***************************************************************************)
(* Actions.                                                                *)
(***************************************************************************)

Step == steps < MaxSteps /\ steps' = steps + 1

\* useEffect(..., [role]): runs once after each mount.
LoadEffect ==
    /\ phase = "mounted"
    /\ LET savedLayout == GetItem(localStorage, LayoutKey(currentRole))
       IN CASE ~Truthy(savedLayout) ->
                 /\ widgets' = DEFAULT_LAYOUTS(currentRole)
                 /\ phase' = "ready"
            [] Truthy(savedLayout) /\ savedLayout.kind = "json" ->
                 /\ widgets' = JSONParse(savedLayout)
                 /\ phase' = "ready"
            [] Truthy(savedLayout) /\ savedLayout.kind = "garbage" ->
                 \* JSON.parse throws out of the effect: React unmounts the tree
                 /\ widgets' = widgets
                 /\ phase' = "crashed"
    /\ lastOp' = "load"
    /\ Step
    /\ UNCHANGED <<currentRole, isEditMode, showPalette, localStorage, clock>>
    /\ UNCHANGED <<themeVars, builderVars, hexVars>>

\* onClick of the Edit Layout button: () => setIsEditMode(true)
EnterEdit ==
    /\ phase = "ready"
    /\ ~isEditMode
    /\ isEditMode' = TRUE
    /\ lastOp' = "edit"
    /\ Step
    /\ UNCHANGED <<currentRole, phase, showPalette, widgets, localStorage, clock>>
    /\ UNCHANGED <<themeVars, builderVars, hexVars>>

SaveLayout ==
    /\ phase = "ready"
    /\ isEditMode
    /\ localStorage' = SetItem(localStorage, LayoutKey(currentRole), JSONStringify(widgets))
    /\ isEditMode' = FALSE
    /\ lastOp' = "save"
    /\ Step
    /\ UNCHANGED <<currentRole, phase, showPalette, widgets, clock>>
    /\ UNCHANGED <<themeVars, builderVars, hexVars>>

\* saveLayout when localStorage.setItem throws (quota exceeded, storage
\* disabled): the exception leaves the click handler before
\* setIsEditMode(false), and the component stays mounted.
SaveLayoutThrows ==
    /\ phase = "ready"
    /\ isEditMode
    /\ lastOp' = "saveFailed"
    /\ Step
    /\ UNCHANGED <<currentRole, phase, isEditMode, showPalette, widgets, localStorage, clock>>
    /\ UNCHANGED <<themeVars, builderVars, hexVars>>

ResetLayout ==
    /\ phase = "ready"
    /\ isEditMode
    /\ widgets' = DEFAULT_LAYOUTS(currentRole)
    /\ localStorage' = RemoveItem(localStorage, LayoutKey(currentRole))
    /\ lastOp' = "reset"
    /\ Step
    /\ UNCHANGED <<currentRole, phase, isEditMode, showPalette, clock>>
    /\ UNCHANGED <<themeVars, builderVars, hexVars>>

\* onClick of the Add Widget button: () => setShowPalette(!showPalette)
TogglePalette ==
    /\ phase = "ready"
    /\ isEditMode
    /\ showPalette' = ~showPalette
    /\ lastOp' = "togglePalette"
    /\ Step
    /\ UNCHANGED <<currentRole, phase, isEditMode, widgets, localStorage, clock>>
    /\ UNCHANGED <<themeVars, builderVars, hexVars>>

\* onClose of WidgetPalette: () => setShowPalette(false)
ClosePalette ==
    /\ phase = "ready"
    /\ isEditMode
    /\ showPalette
    /\ showPalette' = FALSE
    /\ lastOp' = "closePalette"
    /\ Step
    /\ UNCHANGED <<currentRole, phase, isEditMode, widgets, localStorage, clock>>
    /\ UNCHANGED <<themeVars, builderVars, hexVars>>

\* Mutant of AddWidget: the new layout is also written to the store.
AddWidget_AutoSave(componentType, now) ==
    /\ phase = "ready"
    /\ isEditMode
    /\ showPalette
    /\ widgets' = Append(widgets, NewWidget(componentType, now))
    /\ showPalette' = FALSE
    /\ clock' = now
    /\ localStorage' = SetItem(localStorage, LayoutKey(currentRole), JSONStringify(widgets'))
    /\ lastOp' = "add"
    /\ Step
    /\ UNCHANGED <<currentRole, phase, isEditMode>>
    /\ UNCHANGED <<themeVars, builderVars, hexVars>>

\* addWidget, reached from a palette button; now is what Date.now() returns,
\* the same millisecond as its last reading or a later one.
AddWidget(componentType, now) ==
    /\ phase = "ready"
    /\ isEditMode
    /\ showPalette
    /\ widgets' = Append(widgets, NewWidget(componentType, now))
    /\ showPalette' = FALSE
    /\ clock' = now
    /\ lastOp' = "add"
    /\ Step
    /\ UNCHANGED <<currentRole, phase, isEditMode, localStorage>>
    /\ UNCHANGED <<themeVars, builderVars, hexVars>>

\* removeWidget, reached from the x button of a rendered widget
RemoveWidget(widgetId) ==
    /\ phase = "ready"
    /\ isEditMode
    /\ widgets' = FilterOut(widgets, widgetId)
    /\ lastOp' = "remove"
    /\ Step
    /\ UNCHANGED <<currentRole, phase, isEditMode, showPalette, localStorage, clock>>
    /\ UNCHANGED <<themeVars, builderVars, hexVars>>

\* handleLayoutChange, called by the grid with the layout it displays
HandleLayoutChange(layout) ==
    /\ phase \in {"mounted", "ready"}
    /\ IF IgnoresLayoutChange(isEditMode)
       THEN /\ widgets' = widgets
            /\ lastOp' = "layoutChangeIgnored"
       ELSE /\ widgets' = ApplyLayout(widgets, layout)
            /\ lastOp' = "layoutChange"
    /\ Step
    /\ UNCHANGED <<currentRole, phase, isEditMode, showPalette, localStorage, clock>>
    /\ UNCHANGED <<themeVars, builderVars, hexVars>>

\* RoleSelector click on another role: setCurrentRole(role); DashboardGrid
\* is keyed by the role, so it is unmounted and mounted afresh.
SwitchRole(role) ==
    /\ phase = "ready"
    /\ role # currentRole
    /\ currentRole' = role
    /\ isEditMode' = FALSE
    /\ showPalette' = FALSE
    /\ widgets' = <<>>
    /\ phase' = "mounted"
    /\ lastOp' = "switchRole"
    /\ Step
    /\ UNCHANGED <<localStorage, clock>>
    /\ UNCHANGED <<themeVars, builderVars, hexVars>>

Next ==
    \/ LoadEffect
    \/ EnterEdit
    \/ SaveLayout
    \/ SaveLayoutThrows
    \/ ResetLayout
    \/ TogglePalette
    \/ ClosePalette
    \/ \E t \in AddTypes, now \in {clock, clock + 1} : AddWidget(t, now)
    \/ \E id \in TrackedIds(widgets) : RemoveWidget(id)
    \/ \E layout \in ChangeLists(widgets) : HandleLayoutChange(layout)
    \/ \E r \in Roles : SwitchRole(r)

Spec == Init /\ [][Next]_vars

(***************************************************************************)
(* Properties of the edit-mode lifecycle and of per-role persistence.      *)
(***************************************************************************)

Record(role) == localStorage[LayoutKey(role)]

\* C1: the dashboard goes from Editing to Viewing only through the save
\* action, and that action writes the in-memory layout under the active
\* role's key.
C1_OnlySaveLeavesEditing ==
    [][ (isEditMode /\ ~isEditMode') =>
            /\ lastOp' = "save"
            /\ localStorage'[LayoutKey(currentRole)] = JSONStringify(widgets) ]_vars

\* C2: from a state in Viewing whose layout is loaded, no step that keeps
\* the active role changes the in-memory layout.
C2_ViewingIsReadOnly ==
    [][ (phase = "ready" /\ ~isEditMode /\ currentRole' = currentRole) =>
            widgets' = widgets ]_vars

\* C2 witness: a layout-change event arrived in Viewing, over a loaded layout.
C2_Witness ==
    /\ lastOp = "layoutChangeIgnored"
    /\ phase = "ready"
    /\ ~isEditMode
    /\ widgets # <<>>

\* C3: loading never fails: after the load the layout is the persisted one
\* when a record is present and parses, and the role's default otherwise
\* (record absent, empty or unparsable).
C3_LoadNeverFails ==
    lastOp = "load" =>
        /\ phase = "ready"
        /\ widgets = IF Record(currentRole).kind = "json"
                     THEN Record(currentRole).val
                     ELSE DEFAULT_LAYOUTS(currentRole)

\* C4: after reset, the in-memory layout is the active role's built-in
\* default and the role has no persisted record.
C4_ResetRestoresDefault ==
    lastOp = "reset" =>
        /\ widgets = DEFAULT_LAYOUTS(currentRole)
        /\ Record(currentRole) = Absent

\* C4 witness: agent was reset after a widget had been added in the session.
C4_Witness ==
    /\ lastOp = "reset"
    /\ currentRole = "agent"
    /\ clock > 0
    /\ Len(widgets) = 4

\* C5: a step changes no record but the active role's, and the layout a
\* completed load yields is decided by the loaded role's own record.
C5_RoleScoped ==
    [][ /\ \A r \in Roles \ {currentRole} : Record(r)' = Record(r)
        /\ (phase = "mounted" /\ phase' = "ready") =>
               widgets' = IF Record(currentRole).kind = "json"
                          THEN Record(currentRole).val
                          ELSE DEFAULT_LAYOUTS(currentRole) ]_vars

\* C5 witness: supervisor's default was loaded although agent has a saved
\* layout that differs from every default.
C5_Witness ==
    /\ lastOp = "load"
    /\ currentRole = "supervisor"
    /\ widgets = DEFAULT_LAYOUTS("supervisor")
    /\ Record("agent").kind = "json"
    /\ Len(Record("agent").val) = 5
    /\ Record("supervisor") = Absent

C7_MinSizeKept ==
    lastOp = "layoutChange" =>
        \A k \in DOMAIN widgets :
            widgets[k].w >= widgets[k].minW /\ widgets[k].h >= widgets[k].minH

\* C8: widget ids are unique within the in-memory layout in every reachable
\* state, whatever the clock values the adds were performed at.
C8_IdsUnique ==
    \A j, k \in DOMAIN widgets : j # k => widgets[j].i # widgets[k].i

InstanceSet(ws) ==
    {[i |-> ws[k].i, component |-> ws[k].component,
      minW |-> ws[k].minW, minH |-> ws[k].minH] : k \in DOMAIN ws}

\* C9: when an add is followed by the removal of the id the add generated,
\* the layout holds the same widget instances as before the add.
C9_AddThenRemove ==
    [][ (/\ lastOp = "add"
         /\ lastOp' = "remove"
         /\ widgets[Len(widgets)].i \notin Ids(widgets')) =>
            InstanceSet(widgets') = InstanceSet(SubSeq(widgets, 1, Len(widgets) - 1)) ]_vars


\* The widgets of ws whose id is not id, in their order and as they are.
Others(ws, id) == SelectSeq(ws, LAMBDA w : w.i # id)

\* C20: a removal deletes the widgets with one id of the layout and leaves
\* every other widget where it was in the list with the same id, type, x, y,
\* w, h, minW and minH, without an error; removing an id the layout does not
\* hold yields the same layout.
C20_RemoveFrame ==
    [][ /\ lastOp' = "remove" =>
              /\ \E id \in Ids(widgets) : widgets' = Others(widgets, id)
              /\ phase' = phase
        /\ FilterOut(widgets, "no-such-widget") = widgets ]_vars

\* C20 witness: the supervisor's first widget was removed from the default
\* layout and the three others stand as they were.
C20_Witness ==
    /\ lastOp = "remove"
    /\ currentRole = "supervisor"
    /\ widgets = Tail(DEFAULT_LAYOUTS("supervisor"))


\* C21: a layout change taken in edit mode gives the x, y, w, h of a change
\* to exactly the widgets with that change's id; a widget no change names
\* keeps its geometry, a change naming no widget adds none, and every
\* widget keeps its place in the list, its id, type, minW and minH.
C21_LayoutChangeFrame ==
    [][ lastOp' = "layoutChange" =>
          \E layout \in ChangeLists(widgets) :
              /\ Len(widgets') = Len(widgets)
              /\ \A k \in DOMAIN widgets :
                    LET named == {n \in DOMAIN layout : layout[n].i = widgets[k].i}
                    IN IF named = {}
                       THEN widgets'[k] = widgets[k]
                       ELSE \E n \in named :
                              widgets'[k] = [widgets[k] EXCEPT !.x = layout[n].x,
                                                               !.y = layout[n].y,
                                                               !.w = layout[n].w,
                                                               !.h = layout[n].h] ]_vars

\* C21 witness: in the agent's default layout a change moved and resized
\* queue-stats and the three other widgets stand as they were.
C21_Witness ==
    /\ lastOp = "layoutChange"
    /\ currentRole = "agent"
    /\ Len(widgets) = 4
    /\ SubSeq(widgets, 1, 3) = SubSeq(DEFAULT_LAYOUTS("agent"), 1, 3)
    /\ widgets[4] = Widget("queue-stats", 10, 3, 2, 1, "QueueStats", 4, 3)


(***************************************************************************)
(* Vertical compaction of the grid (compactType="vertical"), as section    *)
(* 4.1 of the specification defines it: widgets are taken in ascending y,  *)
(* ties in ascending x, and each is given the smallest y >= 0 at which it  *)
(* overlaps no widget placed before it.                                    *)
(***************************************************************************)
cols == 12

MaxLayoutLen == 3   \* widgets in a layout handed to the grid

\* Do rectangle a at row ya and rectangle b at row yb share a cell?
Overlaps(a, ya, b, yb) ==
    /\ a.x < b.x + b.w
    /\ b.x < a.x + a.w
    /\ ya < yb + b.h
    /\ yb < ya + a.h

\* Mutant of Before: widgets are processed in the order of the list.
Before_ListOrder(ws, j, k) == j < k

\* Is index j processed before index k?
Before(ws, j, k) ==
    \/ ws[j].y < ws[k].y
    \/ ws[j].y = ws[k].y /\ ws[j].x < ws[k].x
    \/ ws[j].y = ws[k].y /\ ws[j].x = ws[k].x /\ j < k

\* The indices of ws in processing order.
RECURSIVE SortedIndices(_, _)
SortedIndices(ws, left) ==
    IF left = {} THEN <<>>
    ELSE LET first == CHOOSE k \in left : \A j \in left \ {k} : Before(ws, k, j)
         IN <<first>> \o SortedIndices(ws, left \ {first})

\* The first row below every placed widget.
Bottom(ws, placed) ==
    LET ends == {placed[j] + ws[j].h : j \in DOMAIN placed}
    IN IF ends = {} THEN 0 ELSE CHOOSE m \in ends : \A e \in ends : e <= m

\* Mutant of FirstFreeRow: the widget is pulled up by one row at most.
FirstFreeRow_OneRowUp(ws, placed, k) ==
    LET top == IF ws[k].y > Bottom(ws, placed) THEN Bottom(ws, placed) ELSE ws[k].y
        up == IF top > 0 THEN top - 1 ELSE 0
    IN IF \A j \in DOMAIN placed : ~Overlaps(ws[k], up, ws[j], placed[j])
       THEN up ELSE top

\* The smallest row at which widget k overlaps no placed widget.
FirstFreeRow(ws, placed, k) ==
    LET free == {r \in 0..Bottom(ws, placed) :
                    \A j \in DOMAIN placed : ~Overlaps(ws[k], r, ws[j], placed[j])}
    IN CHOOSE r \in free : \A q \in free : r <= q

\* placed: index -> row, for the widgets placed so far.
RECURSIVE PlaceAll(_, _, _)
PlaceAll(ws, order, placed) ==
    IF order = <<>> THEN placed
    ELSE LET k == Head(order)
             row == FirstFreeRow(ws, placed, k)
         IN PlaceAll(ws, Tail(order), (k :> row) @@ placed)

compact(ws) ==
    LET rows == PlaceAll(ws, SortedIndices(ws, DOMAIN ws), <<>>)
    IN [k \in DOMAIN ws |-> [ws[k] EXCEPT !.y = rows[k]]]

\* Items of the layouts handed to the grid: rectangles inside the 12
\* columns, some overlapping, some with gaps above them, some asking to be
\* appended.
GridSpans == { [x |-> 0, w |-> 6], [x |-> 3, w |-> 6], [x |-> 6, w |-> 6], [x |-> 0, w |-> cols] }

\* Row and height: at the top, with a gap above, asking to be appended.
GridRows == { [y |-> 0, h |-> 3], [y |-> 2, h |-> 1], [y |-> 5, h |-> 2],
              [y |-> Infinity, h |-> 1] }

GridRects ==
    {[x |-> s.x, w |-> s.w, y |-> r.y, h |-> r.h] : s \in GridSpans, r \in GridRows}

GridWidget(n, r) == Widget(NewWidgetId(n), r.x, r.y, r.w, r.h, "QueueStats", 3, 1)

CompactInit ==
    /\ currentRole = "agent"
    /\ phase = "ready"
    /\ isEditMode = FALSE
    /\ showPalette = FALSE
    /\ widgets \in {<<>>}
                   \cup {DEFAULT_LAYOUTS(r) : r \in Roles}
                   \cup {Append(DEFAULT_LAYOUTS(r), NewWidget(t, 0)) :
                            r \in Roles, t \in AddTypes}
    /\ localStorage = [k \in LayoutKeys |-> Absent]
    /\ clock = 0
    /\ lastOp = "mount"
    /\ steps = 0
    /\ ThemeAtRest /\ BuilderAtRest /\ HexAtRest

\* The layout handed to the grid gets one more item.
HandItem(r) ==
    /\ lastOp = "mount"
    /\ Len(widgets) < MaxLayoutLen
    /\ widgets' = Append(widgets, GridWidget(Len(widgets) + 1, r))
    /\ UNCHANGED <<currentRole, phase, isEditMode, showPalette, localStorage, clock,
                   lastOp, steps>>
    /\ UNCHANGED <<themeVars, builderVars, hexVars>>

\* The grid compacts the layout it was handed.
CompactStep ==
    /\ steps < 2
    /\ widgets # <<>>
    /\ widgets' = compact(widgets)
    /\ lastOp' = "compact"
    /\ steps' = steps + 1
    /\ UNCHANGED <<currentRole, phase, isEditMode, showPalette, localStorage, clock>>
    /\ UNCHANGED <<themeVars, builderVars, hexVars>>

CompactNext ==
    \/ \E r \in GridRects : HandItem(r)
    \/ CompactStep

CompactSpec == CompactInit /\ [][CompactNext]_vars

ValidLayout(ws) ==
    \A k \in DOMAIN ws :
        /\ ws[k].x >= 0 /\ ws[k].y >= 0
        /\ ws[k].w >= ws[k].minW /\ ws[k].h >= ws[k].minH
        /\ ws[k].x + ws[k].w <= cols

\* C10: compaction is idempotent: compacting a compacted valid layout
\* changes no widget.
C10_CompactIdempotent ==
    (lastOp = "compact" /\ ValidLayout(widgets)) => compact(widgets) = widgets

\* C10 witness: a layout was compacted twice, the first pass having pulled
\* an appended widget and a widget with a gap above it to their rows.
C10_Witness ==
    /\ lastOp = "compact"
    /\ steps = 2
    /\ Len(widgets) = 3
    /\ widgets[1].y = 0
    /\ widgets[2].y = 3
    /\ widgets[3].y = 4
    /\ widgets[3].x = 3

\* Does widget j come before widget k in ascending y, ties in ascending x
\* (and widgets equal in both in the order of the list)?
ProcessedEarlier(ws, j, k) ==
    \/ ws[j].y < ws[k].y
    \/ ws[j].y = ws[k].y /\ ws[j].x < ws[k].x
    \/ ws[j].y = ws[k].y /\ ws[j].x = ws[k].x /\ j < k

\* C11: a compaction keeps every widget's id, x, w and h, leaves no two
\* rectangles overlapping, and gives each widget the smallest row y >= 0 at
\* which it overlaps no widget that comes before it in ascending y (ties in
\* ascending x), those widgets standing at their new rows.
C11_CompactFirstFit ==
    [][ lastOp' = "compact" =>
          /\ Len(widgets') = Len(widgets)
          /\ \A k \in DOMAIN widgets :
                /\ widgets'[k] = [widgets[k] EXCEPT !.y = widgets'[k].y]
                /\ widgets'[k].y >= 0
                /\ \A j \in DOMAIN widgets :
                      j # k => ~Overlaps(widgets'[k], widgets'[k].y,
                                         widgets'[j], widgets'[j].y)
                /\ \A r \in 0..(widgets'[k].y - 1) :
                      \E j \in DOMAIN widgets :
                          /\ ProcessedEarlier(widgets, j, k)
                          /\ Overlaps(widgets[k], r, widgets[j], widgets'[j].y) ]_vars

\* C11 witness: the second widget of the list stood above the first in the
\* same columns; the compaction placed it first, at row 0, and the first
\* widget of the list right below it.
C11_Witness ==
    /\ lastOp = "compact"
    /\ steps = 1
    /\ Len(widgets) = 2
    /\ widgets[1].x = 0 /\ widgets[1].w = 6 /\ widgets[1].h = 2
    /\ widgets[2].x = 0 /\ widgets[2].w = 6 /\ widgets[2].h = 3
    /\ widgets[2].y = 0
    /\ widgets[1].y = 3

(***************************************************************************)
(* hexToHSL of ThemeBuilder.  A string is the sequence of its characters.  *)
(* The channels are kept as integers 0..255 and every quotient is rounded  *)
(* once, as Math.round rounds the exact quotient (halves upwards).         *)
(***************************************************************************)
MaxHexLen == 7   \* characters typed into a color field

LowerDigits == <<"0", "1", "2", "3", "4", "5", "6", "7", "8", "9",
                 "a", "b", "c", "d", "e", "f">>

UpperDigits == <<"0", "1", "2", "3", "4", "5", "6", "7", "8", "9",
                 "A", "B", "C", "D", "E", "F">>

\* [a-f\d] under the i flag.
IsHexDigit(c) == \E n \in 1..16 : LowerDigits[n] = c \/ UpperDigits[n] = c

\* parseInt(c, 16) of one hex digit.
DigitValue(c) == (CHOOSE n \in 1..16 : LowerDigits[n] = c \/ UpperDigits[n] = c) - 1

\* The string without the '#' the pattern allows in front.
HexBody(hex) == IF hex # <<>> /\ Head(hex) = "#" THEN Tail(hex) ELSE hex

\* /^#?([a-f\d]{2})([a-f\d]{2})([a-f\d]{2})$/i
Matches(hex) ==
    /\ Len(HexBody(hex)) = 6
    /\ \A n \in 1..6 : IsHexDigit(HexBody(hex)[n])

\* parseInt(result[n], 16), the n-th pair of digits.
Channel(hex, n) ==
    16 * DigitValue(HexBody(hex)[2 * n - 1]) + DigitValue(HexBody(hex)[2 * n])

Max3(a, b, c) == IF a >= b /\ a >= c THEN a ELSE IF b >= c THEN b ELSE c

Min3(a, b, c) == IF a <= b /\ a <= c THEN a ELSE IF b <= c THEN b ELSE c

\* Math.round(n / d) for n >= 0, d > 0.
RoundDiv(n, d) == (2 * n + d) \div (2 * d)

\* `${h} ${s}% ${l}%`
HSLString(h, s, l) ==
    ToString(h) \o " " \o ToString(s) \o "% " \o ToString(l) \o "%"

\* Mutant of NoMatchResult: an unparseable string yields white.
NoMatchResult_White == "0 0% 100%"

\* What hexToHSL returns when the pattern does not match.
NoMatchResult == "0 0% 0%"

\* Hue, saturation and lightness as hexToHSL rounds them.
HSLOf(r, g, b) ==
    LET max == Max3(r, g, b)
        min == Min3(r, g, b)
        d == max - min
        l == RoundDiv(100 * (max + min), 510)
        s == IF max = min THEN 0
             ELSE IF max + min > 255 THEN RoundDiv(100 * d, 510 - max - min)
                  ELSE RoundDiv(100 * d, max + min)
        h == IF max = min THEN 0
             ELSE IF max = r THEN RoundDiv(60 * ((g - b) + (IF g < b THEN 6 * d ELSE 0)), d)
             ELSE IF max = g THEN RoundDiv(60 * ((b - r) + 2 * d), d)
             ELSE RoundDiv(60 * ((r - g) + 4 * d), d)
    IN [h |-> h, s |-> s, l |-> l]

hexToHSL(hex) ==
    IF ~Matches(hex) THEN NoMatchResult
    ELSE LET c == HSLOf(Channel(hex, 1), Channel(hex, 2), Channel(hex, 3))
         IN HSLString(c.h, c.s, c.l)

\* The dashboard as it stands while the theme side is looked at.
DashAtRest ==
    /\ currentRole = "agent"
    /\ isEditMode = FALSE
    /\ showPalette = FALSE
    /\ widgets = <<>>
    /\ localStorage = [k \in LayoutKeys |-> Absent]
    /\ clock = 0

\* Characters typed into a color field: the '#', two hex digits and a
\* letter that is no hex digit.
TypedChars == {"#", "f", "0", "g"}

\* Text a color field starts from: empty, the shorthand, upper case, no '#',
\* and a red with a trace of blue.
FieldTexts ==
    { <<>>,
      <<"#", "f", "f", "f">>,
      <<"#", "F", "F", "0", "0", "0", "0">>,
      <<"2", "1", "9", "6", "F", "3">>,
      <<"#", "f", "f", "0", "0", "0", "1">> }

HexInit ==
    /\ DashAtRest /\ ThemeAtRest /\ BuilderAtRest
    /\ phase = "ready"
    /\ hexInput \in FieldTexts
    /\ hslOutput = ""
    /\ lastOp = "mount"
    /\ steps = 0

\* One more character is typed into the field.
TypeChar(c) ==
    /\ lastOp = "mount"
    /\ Len(hexInput) < MaxHexLen
    /\ hexInput' = Append(hexInput, c)
    /\ UNCHANGED <<hslOutput, phase, lastOp, steps>>
    /\ UNCHANGED <<dashVars, themeVars, builderVars>>

\* The field's text goes through hexToHSL.
ConvertHex ==
    /\ lastOp = "mount"
    /\ hslOutput' = hexToHSL(hexInput)
    /\ lastOp' = "hexToHSL"
    /\ UNCHANGED <<hexInput, phase, steps>>
    /\ UNCHANGED <<dashVars, themeVars, builderVars>>

HexNext ==
    \/ \E c \in TypedChars : TypeChar(c)
    \/ ConvertHex

HexSpec == HexInit /\ [][HexNext]_vars

\* Is str six hex digits, with or without a '#' in front?
IsHexTriplet(str) ==
    \E start \in {0, 1} :
        /\ Len(str) = start + 6
        /\ start = 1 => str[1] = "#"
        /\ \A n \in (start + 1)..(start + 6) :
              str[n] \in {"0", "1", "2", "3", "4", "5", "6", "7", "8", "9",
                          "a", "b", "c", "d", "e", "f",
                          "A", "B", "C", "D", "E", "F"}

\* C18: hexToHSL maps #ffffff to 0 0% 100%, #000000 to 0 0% 0% and #ff0000
\* to 0 100% 50%, and returns 0 0% 0% for every string that is not six hex
\* digits.
C18_HexToHSLKnownValues ==
    lastOp = "hexToHSL" =>
        /\ hexInput = <<"#", "f", "f", "f", "f", "f", "f">> => hslOutput = "0 0% 100%"
        /\ hexInput = <<"#", "0", "0", "0", "0", "0", "0">> => hslOutput = "0 0% 0%"
        /\ hexInput = <<"#", "f", "f", "0", "0", "0", "0">> => hslOutput = "0 100% 50%"
        /\ ~IsHexTriplet(hexInput) => hslOutput = "0 0% 0%"

\* C18 witness: the three-digit shorthand of white went through hexToHSL
\* and came out as black.
C18_Witness ==
    /\ lastOp = "hexToHSL"
    /\ hexInput = <<"#", "f", "f", "f">>
    /\ hslOutput = "0 0% 0%"

(***************************************************************************)
(* ThemeProvider.  A render captures mode and variant; the effects of a    *)
(* render run after it, in the order of their declaration, and see the     *)
(* values the render captured.  A state update made by an effect or by a   *)
(* handler shows in the next render.  Handlers run between renders, when   *)
(* no effect is pending.                                                   *)
(***************************************************************************)
ThemeModes == {"light", "dark"}

ThemeVariants == {"professional", "modern", "minimal", "high-contrast"}

\* What the theme keys may hold when the application starts: nothing, a
\* value the application wrote, or a string it never writes.
StoredModes == {NoItem, Item("light"), Item("dark"), Item(""), Item("blue")}

StoredVariants == {NoItem, Item("professional"), Item("modern"), Item("neon")}

InitialThemeStores ==
    { [k \in ThemeKeys |-> IF k = "theme-mode" THEN m ELSE v] :
          m \in StoredModes, v \in StoredVariants }

\* Mutant of TruthyItem: what the store holds is never taken over.
TruthyItem_Never(item) == FALSE

\* if (saved): getItem returned a non-empty string.
TruthyItem(item) == item.present /\ item.val # ""

\* Mutant of Persist: only the mode is written.
Persist_ModeOnly(store, m, v) == [store EXCEPT !["theme-mode"] = Item(m)]

\* localStorage.setItem('theme-mode', mode); setItem('theme-variant', variant)
Persist(store, m, v) ==
    [store EXCEPT !["theme-mode"] = Item(m), !["theme-variant"] = Item(v)]

\* classList.remove('light', 'dark'); classList.add(mode)
ModeClasses(classes, m) == (classes \ {"light", "dark"}) \cup {m}

\* removeAttribute('data-theme'); setAttribute when not 'professional'
VariantAttribute(v) == IF v # "professional" THEN v ELSE NoAttribute

\* No effect is pending and the last render shows the current state.
Settled ==
    /\ phase = "ready"
    /\ pendingEffects = <<>>
    /\ renderedMode = mode
    /\ renderedVariant = variant

ThemeInit ==
    /\ DashAtRest /\ BuilderAtRest /\ HexAtRest
    /\ phase = "ready"
    /\ mode = "light"
    /\ variant = "professional"
    /\ renderedMode = "light"
    /\ renderedVariant = "professional"
    /\ pendingEffects = <<"load", "apply">>
    /\ rootClasses = {}
    /\ dataTheme = NoAttribute
    /\ themeStore \in InitialThemeStores
    /\ themeHistory = [found |-> themeStore, acted |-> FALSE]
    /\ lastOp = "mount"
    /\ steps = 0

\* useEffect(..., []): take over what the store holds.
ThemeLoadEffect ==
    /\ phase = "ready"
    /\ pendingEffects # <<>> /\ Head(pendingEffects) = "load"
    /\ mode' = IF TruthyItem(themeStore["theme-mode"])
               THEN themeStore["theme-mode"].val ELSE mode
    /\ variant' = IF TruthyItem(themeStore["theme-variant"])
                  THEN themeStore["theme-variant"].val ELSE variant
    /\ pendingEffects' = Tail(pendingEffects)
    /\ lastOp' = "themeLoad"
    /\ Step
    /\ UNCHANGED <<renderedMode, renderedVariant, rootClasses, dataTheme, themeStore,
                   themeHistory, phase>>
    /\ UNCHANGED <<dashVars, builderVars, hexVars>>

\* useEffect(..., [mode, variant]): flag the root element and persist.
ThemeApplyEffect ==
    /\ phase = "ready"
    /\ pendingEffects # <<>> /\ Head(pendingEffects) = "apply"
    /\ rootClasses' = ModeClasses(rootClasses, renderedMode)
    /\ dataTheme' = VariantAttribute(renderedVariant)
    /\ themeStore' = Persist(themeStore, renderedMode, renderedVariant)
    /\ pendingEffects' = Tail(pendingEffects)
    /\ lastOp' = "themeApply"
    /\ Step
    /\ UNCHANGED <<mode, variant, renderedMode, renderedVariant, themeHistory, phase>>
    /\ UNCHANGED <<dashVars, builderVars, hexVars>>

\* The same effect when localStorage.setItem throws (quota exceeded, storage
\* disabled) at the key failedKey: the exception leaves the effect, and an
\* exception out of an effect unmounts the application.
ThemeApplyEffectThrows(failedKey) ==
    /\ phase = "ready"
    /\ pendingEffects # <<>> /\ Head(pendingEffects) = "apply"
    /\ rootClasses' = ModeClasses(rootClasses, renderedMode)
    /\ dataTheme' = VariantAttribute(renderedVariant)
    /\ themeStore' = IF failedKey = "theme-mode" THEN themeStore
                     ELSE [themeStore EXCEPT !["theme-mode"] = Item(renderedMode)]
    /\ pendingEffects' = <<>>
    /\ phase' = "crashed"
    /\ lastOp' = "themeApplyFailed"
    /\ Step
    /\ UNCHANGED <<mode, variant, renderedMode, renderedVariant, themeHistory>>
    /\ UNCHANGED <<dashVars, builderVars, hexVars>>

\* The render a state update asked for; its dependencies differ from those
\* of the render before, so the apply effect is scheduled.
ThemeRender ==
    /\ phase = "ready"
    /\ pendingEffects = <<>>
    /\ <<mode, variant>> # <<renderedMode, renderedVariant>>
    /\ renderedMode' = mode
    /\ renderedVariant' = variant
    /\ pendingEffects' = <<"apply">>
    /\ lastOp' = "themeRender"
    /\ Step
    /\ UNCHANGED <<mode, variant, rootClasses, dataTheme, themeStore, themeHistory, phase>>
    /\ UNCHANGED <<dashVars, builderVars, hexVars>>

setMode(m) ==
    /\ Settled
    /\ mode' = m
    /\ themeHistory' = [themeHistory EXCEPT !.acted = TRUE]
    /\ lastOp' = "setMode"
    /\ Step
    /\ UNCHANGED <<variant, renderedMode, renderedVariant, pendingEffects, rootClasses,
                   dataTheme, themeStore, phase>>
    /\ UNCHANGED <<dashVars, builderVars, hexVars>>

setVariant(v) ==
    /\ Settled
    /\ variant' = v
    /\ themeHistory' = [themeHistory EXCEPT !.acted = TRUE]
    /\ lastOp' = "setVariant"
    /\ Step
    /\ UNCHANGED <<mode, renderedMode, renderedVariant, pendingEffects, rootClasses,
                   dataTheme, themeStore, phase>>
    /\ UNCHANGED <<dashVars, builderVars, hexVars>>

toggleMode ==
    /\ Settled
    /\ mode' = IF renderedMode = "light" THEN "dark" ELSE "light"
    /\ themeHistory' = [themeHistory EXCEPT !.acted = TRUE]
    /\ lastOp' = "toggleMode"
    /\ Step
    /\ UNCHANGED <<variant, renderedMode, renderedVariant, pendingEffects, rootClasses,
                   dataTheme, themeStore, phase>>
    /\ UNCHANGED <<dashVars, builderVars, hexVars>>

ThemeNext ==
    \/ ThemeLoadEffect
    \/ ThemeApplyEffect
    \/ \E k \in ThemeKeys : ThemeApplyEffectThrows(k)
    \/ ThemeRender
    \/ \E m \in ThemeModes : setMode(m)
    \/ \E v \in ThemeVariants : setVariant(v)
    \/ toggleMode

ThemeSpec == ThemeInit /\ [][ThemeNext]_vars

\* C14: when a setMode, setVariant or toggleMode has been followed by its
\* render and apply effect, theme-mode and theme-variant in the store equal
\* mode and variant in memory.
C14_PersistedFollowsMemory ==
    (Settled /\ themeHistory.acted) =>
        /\ themeStore["theme-mode"] = Item(mode)
        /\ themeStore["theme-variant"] = Item(variant)

\* C14 witness: on an empty store the user went to dark and to the minimal
\* variant, and the apply effect has run for it.
C14_Witness ==
    /\ Settled
    /\ themeHistory = [found |-> [k \in ThemeKeys |-> NoItem], acted |-> TRUE]
    /\ lastOp = "themeApply"
    /\ mode = "dark"
    /\ variant = "minimal"

\* What a theme key yields at startup: the string found there, or the
\* default when nothing (or the empty string) was found.
Preferred(found, default) ==
    IF found.present /\ found.val # "" THEN found.val ELSE default

\* C15: once the startup effects have settled and before the user acts, mode
\* and variant equal what the store held at startup, the store still holds
\* it, and a key that held nothing has left its default, light or
\* professional, in memory.
C15_StartupKeepsPreference ==
    (Settled /\ ~themeHistory.acted) =>
        /\ mode = Preferred(themeHistory.found["theme-mode"], "light")
        /\ variant = Preferred(themeHistory.found["theme-variant"], "professional")
        /\ \A k \in ThemeKeys :
              (themeHistory.found[k].present /\ themeHistory.found[k].val # "")
                  => themeStore[k] = themeHistory.found[k]

\* C15 witness: the store held dark and no variant; the load effect, the
\* first apply effect, the render and the second apply effect have run.
C15_Witness ==
    /\ Settled
    /\ ~themeHistory.acted
    /\ themeHistory.found["theme-mode"] = Item("dark")
    /\ themeHistory.found["theme-variant"] = NoItem
    /\ lastOp = "themeApply"
    /\ steps = 4
    /\ mode = "dark"
    /\ variant = "professional"
    /\ themeStore["theme-mode"] = Item("dark")

\* C16: after an apply effect that leaves nothing pending, the root element
\* carries exactly one of the classes light and dark, the one equal to mode,
\* and carries data-theme if and only if variant is not professional, with
\* variant as its value.
C16_OneModeFlag ==
    (lastOp = "themeApply" /\ Settled) =>
        /\ rootClasses \cap ThemeModes = {mode}
        /\ (dataTheme # NoAttribute) <=> (variant # "professional")
        /\ variant # "professional" => dataTheme = variant

\* C19: a write to localStorage that fails, in saveLayout or in the apply
\* effect of the theme, leaves the application running and leaves the
\* layout, mode and variant in memory as they were.
C19_WriteFailureNotFatal ==
    [][ lastOp' \in {"saveFailed", "themeApplyFailed"} =>
            /\ phase' = "ready"
            /\ widgets' = widgets
            /\ mode' = mode
            /\ variant' = variant ]_vars

(***************************************************************************)
(* ThemeBuilder.  A theme document is what JSON.parse yields for a file:   *)
(* nothing for a text that is no JSON, else the fields the text has.       *)
(* JSON.stringify leaves out a field whose value is undefined.             *)
(***************************************************************************)
MaxBuilderSteps == 4   \* handlers run in one explored session of the builder

JsUndefined == -2      \* JavaScript undefined, where a number is expected

\* undefined, where a color scheme is expected: a scheme with no key.
UndefinedColors == [k \in {} |-> <<>>]

Document(fields, name, scheme, radius) ==
    [kind |-> "json", has |-> fields, name |-> name, colors |-> scheme,
     borderRadius |-> radius]

NotJSON ==
    [kind |-> "garbage", has |-> {}, name |-> "", colors |-> UndefinedColors,
     borderRadius |-> JsUndefined]

\* themeName || 'Custom Theme'
ExportedName(name) == IF name = "" THEN "Custom Theme" ELSE name

\* JSON.parse(JSON.stringify({name, colors, borderRadius, timestamp}))
ExportedDocument(name, scheme, radius) ==
    Document({"name"}
                \cup (IF scheme = UndefinedColors THEN {} ELSE {"colors"})
                \cup (IF radius = JsUndefined THEN {} ELSE {"borderRadius"}),
             ExportedName(name), scheme, radius)

\* theme.colors, theme.borderRadius of a parsed document.
ColorsOf(doc) == IF "colors" \in doc.has THEN doc.colors ELSE UndefinedColors

RadiusOf(doc) == IF "borderRadius" \in doc.has THEN doc.borderRadius ELSE JsUndefined

\* `${borderRadius}px`
Px(radius) == IF radius = JsUndefined THEN "undefinedpx" ELSE ToString(radius) \o "px"

\* applyTheme(scheme), called from a render in which borderRadius was radius:
\* one property per key of the scheme, then --radius.
applyTheme(style, scheme, radius) ==
    [colors |-> [k \in DOMAIN scheme \cup DOMAIN style.colors |->
                    IF k \in DOMAIN scheme THEN hexToHSL(scheme[k]) ELSE style.colors[k]],
     radius |-> Px(radius)]

\* Values the color fields are given: what the color picker yields, and a
\* text that is no hex triplet.
ColorInputs == { <<"#", "f", "f", "0", "0", "0", "0">>, <<"r", "e", "d">> }

\* The color fields the user edits.
EditedKeys == {"primary", "background"}

\* Positions of the radius slider: its two ends.
SliderValues == {0, 24}

NameInputs == {"", "Ocean"}

OceanColors == [defaultColors EXCEPT !["primary"] = <<"#", "0", "0", "6", "6", "c", "c">>]

\* Files handed to the import input that the builder did not export.
ForeignFiles ==
    { NotJSON,
      Document({"name", "colors", "borderRadius"}, "Ocean", OceanColors, 12),
      Document({"name", "borderRadius"}, "Ocean", UndefinedColors, 12),
      Document({"name", "colors"}, "Ocean", OceanColors, JsUndefined) }

\* ThemeProvider as it stands, started on an empty store, while the builder
\* is open.
ThemeSettledOnDefaults ==
    /\ mode = "light"
    /\ variant = "professional"
    /\ renderedMode = "light"
    /\ renderedVariant = "professional"
    /\ pendingEffects = <<>>
    /\ rootClasses = {"light"}
    /\ dataTheme = NoAttribute
    /\ themeStore = Persist([k \in ThemeKeys |-> NoItem], "light", "professional")
    /\ themeHistory = [found |-> [k \in ThemeKeys |-> NoItem], acted |-> FALSE]

BuilderInit ==
    /\ DashAtRest /\ HexAtRest /\ BuilderAtRest
    /\ ThemeSettledOnDefaults
    /\ phase = "ready"
    /\ lastOp = "mount"
    /\ steps = 0

BuilderStep ==
    /\ phase = "ready"
    /\ steps < MaxBuilderSteps
    /\ steps' = steps + 1

handleColorChange(key, value) ==
    /\ BuilderStep
    /\ colors' = [colors EXCEPT ![key] = value]
    /\ styleVars' = applyTheme(styleVars, [colors EXCEPT ![key] = value], borderRadius)
    /\ lastOp' = "colorChange"
    /\ UNCHANGED <<borderRadius, themeName, toast, exportedFile, importedFile, phase>>
    /\ UNCHANGED <<dashVars, themeVars, hexVars>>

\* Slider onValueChange
handleRadiusChange(value) ==
    /\ BuilderStep
    /\ borderRadius' = value
    /\ styleVars' = [styleVars EXCEPT !.radius = Px(value)]
    /\ lastOp' = "radiusChange"
    /\ UNCHANGED <<colors, themeName, toast, exportedFile, importedFile, phase>>
    /\ UNCHANGED <<dashVars, themeVars, hexVars>>

setThemeName(name) ==
    /\ BuilderStep
    /\ themeName' = name
    /\ lastOp' = "nameChange"
    /\ UNCHANGED <<colors, borderRadius, styleVars, toast, exportedFile, importedFile, phase>>
    /\ UNCHANGED <<dashVars, themeVars, hexVars>>

exportTheme ==
    /\ BuilderStep
    /\ exportedFile' = ExportedDocument(themeName, colors, borderRadius)
    /\ toast' = "Theme Exported"
    /\ lastOp' = "export"
    /\ UNCHANGED <<colors, borderRadius, themeName, styleVars, importedFile, phase>>
    /\ UNCHANGED <<dashVars, themeVars, hexVars>>

\* reader.onload of importTheme.  The three state updates are made before
\* applyTheme runs; when theme.colors is undefined, Object.entries throws in
\* applyTheme, the catch shows the failure toast, and the render that
\* follows throws on Object.entries(colors) and unmounts the application.
importTheme(file) ==
    /\ BuilderStep
    /\ importedFile' = file
    /\ lastOp' = "import"
    /\ IF file.kind # "json"
       THEN /\ toast' = "Import Failed"
            /\ UNCHANGED <<colors, borderRadius, themeName, styleVars, phase>>
       ELSE /\ colors' = ColorsOf(file)
            /\ borderRadius' = RadiusOf(file)
            /\ themeName' = file.name
            /\ IF ColorsOf(file) = UndefinedColors
               THEN /\ toast' = "Import Failed"
                    /\ phase' = "crashed"
                    /\ UNCHANGED styleVars
               ELSE /\ styleVars' = applyTheme(styleVars, ColorsOf(file), borderRadius)
                    /\ toast' = "Theme Imported"
                    /\ UNCHANGED phase
    /\ UNCHANGED exportedFile
    /\ UNCHANGED <<dashVars, themeVars, hexVars>>

resetTheme ==
    /\ BuilderStep
    /\ colors' = defaultColors
    /\ borderRadius' = 8
    /\ styleVars' = applyTheme(styleVars, defaultColors, borderRadius)
    /\ toast' = "Theme Reset"
    /\ lastOp' = "resetTheme"
    /\ UNCHANGED <<themeName, exportedFile, importedFile, phase>>
    /\ UNCHANGED <<dashVars, themeVars, hexVars>>

BuilderNext ==
    \/ \E key \in EditedKeys, value \in ColorInputs : handleColorChange(key, value)
    \/ \E value \in SliderValues : handleRadiusChange(value)
    \/ \E name \in NameInputs : setThemeName(name)
    \/ exportTheme
    \/ \E file \in ForeignFiles : importTheme(file)
    \/ exportedFile # NoFile /\ importTheme(exportedFile)
    \/ resetTheme

BuilderSpec == BuilderInit /\ [][BuilderNext]_vars

\* Is the file one that import has to reject: no JSON, or a document
\* without colors or without borderRadius?
InvalidThemeFile(file) ==
    \/ file.kind # "json"
    \/ "colors" \notin file.has
    \/ "borderRadius" \notin file.has

\* C12: an import of a file that is no JSON, or of a document that lacks
\* colors or lacks borderRadius, leaves colors, borderRadius, themeName and
\* the style properties of the root element as they were and shows the
\* failure toast.
C12_InvalidImportRejected ==
    [][ (lastOp' = "import" /\ InvalidThemeFile(importedFile')) =>
            /\ colors' = colors
            /\ borderRadius' = borderRadius
            /\ themeName' = themeName
            /\ styleVars' = styleVars
            /\ toast' = "Import Failed" ]_vars

\* C13: an import of the document an export has just written leaves
\* themeName, colors and borderRadius as they were at the export.
C13_ExportImportIdentity ==
    [][ (lastOp = "export" /\ lastOp' = "import" /\ importedFile' = exportedFile) =>
            /\ themeName' = themeName
            /\ colors' = colors
            /\ borderRadius' = borderRadius ]_vars

\* C17: after a color change, a radius change or a successful import in the
\* builder, the variant is "custom", in memory and in the store.
C17_CustomSchemeIsPreference ==
    (\/ lastOp \in {"colorChange", "radiusChange"}
     \/ lastOp = "import" /\ toast = "Theme Imported") =>
        /\ variant = "custom"
        /\ themeStore["theme-variant"] = Item("custom")

(***************************************************************************)
(* Further properties of the dashboard.                                    *)
(***************************************************************************)
\* x and y are integers >= 0, y is not the place-at-bottom value, and the
\* widget ends inside the columns.
InsideGrid(w) ==
    /\ w.x >= 0
    /\ w.y >= 0
    /\ w.y # Infinity
    /\ w.x + w.w <= cols

\* C22: in every state every widget in memory, and every widget of every
\* stored layout, has x >= 0, a y >= 0 that is not the place-at-bottom
\* value, and x + w <= 12.
C22_WidgetsInsideGrid ==
    /\ \A k \in DOMAIN widgets : InsideGrid(widgets[k])
    /\ \A r \in Roles :
          Record(r).kind = "json" =>
              \A k \in DOMAIN Record(r).val : InsideGrid(Record(r).val[k])

\* C23: an add leaves the application running, appends one widget of a
\* catalog type with x = 0, w = 4, h = 3 and a y greater than y + h of every
\* widget there was, leaves those widgets as they were and closes the
\* palette.
C23_AddWidgetBelowAll ==
    [][ lastOp' = "add" =>
          /\ phase' = "ready"
          /\ Len(widgets') = Len(widgets) + 1
          /\ SubSeq(widgets', 1, Len(widgets)) = widgets
          /\ LET new == widgets'[Len(widgets')]
             IN /\ new.component \in AddTypes
                /\ new.x = 0 /\ new.w = 4 /\ new.h = 3
                /\ \A k \in DOMAIN widgets : new.y > widgets[k].y + widgets[k].h
          /\ ~showPalette' ]_vars

\* What the load effect makes of a record that parses, or of no record.
Loaded(rec, role) ==
    IF rec.kind = "json" THEN rec.val ELSE DEFAULT_LAYOUTS(role)

\* C28: the record a save writes is one from which a load of the same role
\* yields the layout that was in memory at the save, field by field.
C28_SaveLoadIdentity ==
    [][ lastOp' = "save" =>
          Loaded(localStorage'[LayoutKey(currentRole)], currentRole) = widgets ]_vars

\* C30: the palette shows only in edit mode, and right after a step from
\* viewing to editing it does not show.
C30_PaletteClosedOnEnter ==
    [][ (~isEditMode /\ isEditMode') => ~showPalette' ]_vars

(***************************************************************************)
(* Further properties of the theme engine.                                 *)
(***************************************************************************)
\* C24: an import of a document that has colors and borderRadius leaves
\* colors, borderRadius and themeName equal to the document's, the eight
\* color properties of the root element equal to hexToHSL of the document's
\* colors, and --radius equal to the document's borderRadius in px.
C24_ImportApplied ==
    [][ (lastOp' = "import" /\ ~InvalidThemeFile(importedFile')) =>
          /\ colors' = importedFile'.colors
          /\ borderRadius' = importedFile'.borderRadius
          /\ themeName' = importedFile'.name
          /\ DOMAIN styleVars'.colors = ColorKeys
          /\ \A k \in ColorKeys :
                styleVars'.colors[k] = hexToHSL(importedFile'.colors[k])
          /\ styleVars'.radius = Px(importedFile'.borderRadius) ]_vars

\* C25: a toggle takes the mode from light to dark or from dark to light,
\* so that a second toggle restores it, and leaves the variant; setMode
\* leaves the variant and setVariant leaves the mode.
C25_ToggleFlips ==
    [][ /\ lastOp' = "toggleMode" =>
              /\ {mode, mode'} = ThemeModes
              /\ variant' = variant
        /\ lastOp' = "setMode" => variant' = variant
        /\ lastOp' = "setVariant" => mode' = mode ]_vars

\* C26: once startup has settled, and ever after, the mode is light or dark
\* and the variant is one of the enumeration, whatever the store held.
C26_CorruptValueFallsBack ==
    Settled => (mode \in ThemeModes /\ variant \in ThemeVariants)

\* C27: after a slider change, an import that showed the success toast, or
\* a reset, --radius on the root element is borderRadius in px.
C27_RadiusApplied ==
    (\/ lastOp \in {"radiusChange", "resetTheme"}
     \/ lastOp = "import" /\ toast = "Theme Imported") =>
        styleVars.radius = Px(borderRadius)

\* C29: for a string of six hex digits, what hexToHSL returned is made of a
\* hue in 0..359 and a saturation and a lightness in 0..100.
C29_HSLInRange ==
    (lastOp = "hexToHSL" /\ IsHexTriplet(hexInput)) =>
        LET c == HSLOf(Channel(hexInput, 1), Channel(hexInput, 2), Channel(hexInput, 3))
        IN /\ hslOutput = HSLString(c.h, c.s, c.l)
           /\ c.h \in 0..359
           /\ c.s \in 0..100
           /\ c.l \in 0..100

====
